---- MODULE Spec2Model ----
(***************************************************************************)
(* State-machine model of the post scheduling / dispatch / retry engine of *)
(* src/scheduler.py (schedule_post, publish_post, schedule_retry,          *)
(* retry_post), with the results of post_to_platform of                    *)
(* src/social_media_api.py drawn by the environment.                       *)
(* Next to it: the deletion of posts (delete_post of src/routes.py and     *)
(* src/enhanced_routes.py) and the polling engine SchedulingService of     *)
(* src/bulk_upload_service.py, one thread that publishes the due posts     *)
(* one after the other; and the distribution of a bulk upload, by          *)
(* process_bulk_upload of src/scheduler.py and by BulkUploadProcessor of   *)
(* src/bulk_upload_service.py.                                             *)
(*                                                                         *)
(* Jobs registered with the APScheduler BackgroundScheduler run on its     *)
(* thread pool, so handlers interleave.  Every handler is cut at its       *)
(* db.session.commit() calls and at the external publish call: one action  *)
(* per segment, with the handler's position kept in the thread record.     *)
(*                                                                         *)
(* Time is counted in units of 30 minutes.                                 *)
(***************************************************************************)
EXTENDS Integers, Sequences, FiniteSets, TLC

\* ---- bounds of the model ------------------------------------------------
MaxPosts == 1
MaxPlatforms == 2
MaxTime == 5
MaxThreads == 2
MaxJobsPerPost == 2
MaxDelay == 1
MaxPolledPosts == 2
MaxItems == 3
MaxBulkTime == 2

\* ---- program constants --------------------------------------------------
\* PostQueue.max_attempts ("maxAttempts (fixed, e.g. 3)")
MaxAttempts == 3
\* timedelta(minutes=30) in publish_post, in units of 30 minutes
RetryDelayFirst == 1
\* timedelta(hours=1) in retry_post, in units of 30 minutes
RetryDelayNext == 2
\* .limit(10) of SchedulingService._process_due_posts
PollLimit == 10

\* timedelta(days=1) and timedelta(hours=1), in units of 30 minutes
DayUnits == 48
HourUnits == 2
\* timedelta(minutes=i * 2): the minutes of one unit, and the step
MinutesPerUnit == 30
ImmediateStep == 2
\* 9 AM, and the slots '09:00' and '18:00', in units of 30 minutes after
\* midnight
NineAM == 18
DefaultDailyTimes == <<18, 36>>

PlatformNames == <<"tiktok", "instagram", "youtube">>
Platforms == {PlatformNames[i] : i \in 1..MaxPlatforms}
MaxOf(a, b) == IF a > b THEN a ELSE b
PostIds == 1..MaxOf(MaxOf(MaxPosts, MaxPolledPosts), MaxItems)
ThreadIds == 1..MaxThreads
\* the thread of SchedulingService, next to the pool threads
Poller == 0
NoTime == 0 - 1

VARIABLES
    now,        \* datetime.utcnow(), in units of 30 minutes
    posts,      \* the posts table: post id -> row
    nextPost,   \* number of post rows created so far (autoincrement key)
    queue,      \* the PostQueue table: sequence of rows, row id = index
    jobs,       \* pending jobs of the APScheduler job store
    threads,    \* handlers running on the scheduler's thread pool, and the
                \* polling thread of SchedulingService
    bulk_upload,  \* the row of the bulk_uploads table
    distributor   \* the request that distributes the items of the batch

vars == <<now, posts, nextPost, queue, jobs, threads, bulk_upload, distributor>>

\* ---- helpers ------------------------------------------------------------
\* a row of the posts table (job_id holds the timestamp of the id of the
\* job registered last; sched_count is a history field: the number of
\* schedule_post calls made for the post)
NoPost == [exists |-> FALSE, status |-> "none", posted_at |-> NoTime,
           platforms |-> <<>>, scheduled_for |-> NoTime, job_id |-> NoTime,
           sched_count |-> 0, error_message |-> "", posting_results |-> <<>>]

Idle == [kind |-> "idle", pc |-> "idle", post |-> 0, qid |-> 0,
         i |-> 0, success_count |-> 0]

\* the polling thread in time.sleep(60): due_posts, and the post, the loop
\* index, success_count and results of _process_single_post
PollerIdle == [kind |-> "poll", pc |-> "sleep", due_posts |-> <<>>, post |-> 0,
               i |-> 0, success_count |-> 0, results |-> <<>>]

\* position of a platform in the form's list of platforms
PlatformIndex(pl) == CHOOSE k \in 1..Len(PlatformNames) : PlatformNames[k] = pl

\* post.set_platforms(platforms) / post.get_platforms(): the selected
\* platforms, stored in the order of the form
RECURSIVE SeqOf(_)
SeqOf(S) ==
    IF S = {} THEN <<>>
    ELSE LET x == CHOOSE y \in S :
                      \A z \in S : PlatformIndex(y) <= PlatformIndex(z)
         IN <<x>> \o SeqOf(S \ {x})

JobId_NoPrefix(j) == <<j.target, j.stamp>>

\* f"post_{post_id}_{timestamp}" and f"retry_{queue_id}_{timestamp}"
JobId(j) == <<j.kind, j.target, j.stamp>>

\* scheduler.add_job(..., id=job_id, replace_existing=True)
AddJob(js, j) == {k \in js : JobId(k) # JobId(j)} \cup {j}

\* no row in the bulk_uploads table.  failed_posts is a field of the
\* BulkUpload that process_bulk_upload of scheduler.py works on;
\* upload_type is its name there for schedule_type
NoBulkUpload == [exists |-> FALSE, status |-> "none", total_posts |-> 0,
                 processed_posts |-> 0, failed_posts |-> 0,
                 upload_type |-> "none", start_date |-> NoTime,
                 target_platforms |-> {}]

\* no bulk upload request at work.  path tells which of the two
\* implementations runs; session_new holds the posts added to the session
\* and not yet committed; outcomes and aborted are history fields: what
\* happened to each item, and which kind of exception ended the request;
\* file: the platforms column of the rows as they were uploaded
NoDistributor == [pc |-> "idle", path |-> "none", file |-> <<>>,
                  posts_data |-> <<>>,
                  i |-> 0, connected_platforms |-> {}, post |-> 0,
                  daily_times |-> <<>>, current_date |-> NoTime,
                  post_time_index |-> 0, session_new |-> <<>>,
                  outcomes |-> <<>>, aborted |-> "none"]

\* PostQueue.query.filter_by(post_id=p)
RowsOf(p) == {q \in 1..Len(queue) : queue[q].post_id = p}

PendingRetryJobs(q) == {j \in jobs : j.kind = "retry" /\ j.target = q}
PendingPostJobs(p) == {j \in jobs : j.kind = "post" /\ j.target = p}

\* ---- initial state ------------------------------------------------------
Init ==
    /\ now = 0
    /\ posts = [p \in PostIds |-> NoPost]
    /\ nextPost = 0
    /\ queue = <<>>
    /\ jobs = {}
    /\ threads = [t \in ThreadIds \cup {Poller} |->
                     IF t = Poller THEN PollerIdle ELSE Idle]
    /\ bulk_upload = NoBulkUpload
    /\ distributor = NoDistributor

\* ---- environment --------------------------------------------------------
\* Half an hour passes.  The segments of a handler between two commits take
\* no such time: the clock advances only while every running handler waits
\* in post_to_platform.
Tick ==
    /\ now < MaxTime
    /\ \A t \in ThreadIds : threads[t].pc \in {"idle", "post"}
    /\ now' = now + 1
    /\ UNCHANGED <<posts, nextPost, queue, jobs, threads, bulk_upload, distributor>>

\* ---- schedule_post ------------------------------------------------------
SchedulePostJob(p, run) ==
    [kind |-> "post", target |-> p, stamp |-> now, run_date |-> run]

\* routes.schedule_post_route: create the post row, then schedule_post(post.id)
CreatePost(S, d) ==
    /\ nextPost < MaxPosts
    /\ S # {}
    /\ LET p == nextPost + 1 IN
        /\ posts' = [posts EXCEPT ![p] =
              [exists |-> TRUE, status |-> "scheduled", posted_at |-> NoTime,
               platforms |-> SeqOf(S), scheduled_for |-> now + d,
               job_id |-> now, sched_count |-> 1, error_message |-> "",
               posting_results |-> <<>>]]
        /\ jobs' = AddJob(jobs, SchedulePostJob(p, now + d))
    /\ nextPost' = nextPost + 1
    /\ UNCHANGED <<now, queue, threads, bulk_upload, distributor>>

\* routes.schedule_post_route when scheduler.add_job raises: schedule_post
\* logs the error and returns False before it sets post.job_id, and the
\* route, which does not look at the result, reports success
CreatePostEngineFailure(S, d) ==
    /\ nextPost < MaxPosts
    /\ S # {}
    /\ posts' = [posts EXCEPT ![nextPost + 1] =
          [exists |-> TRUE, status |-> "scheduled", posted_at |-> NoTime,
           platforms |-> SeqOf(S), scheduled_for |-> now + d,
           job_id |-> NoTime, sched_count |-> 1, error_message |-> "",
           posting_results |-> <<>>]]
    /\ nextPost' = nextPost + 1
    /\ UNCHANGED <<now, queue, jobs, threads, bulk_upload, distributor>>

\* schedule_post(post_id) called again for a post that already exists
SchedulePost(p) ==
    /\ posts[p].exists
    /\ posts[p].sched_count < MaxJobsPerPost
    /\ jobs' = AddJob(jobs, SchedulePostJob(p, posts[p].scheduled_for))
    /\ posts' = [posts EXCEPT ![p].sched_count = @ + 1, ![p].job_id = now]
    /\ UNCHANGED <<now, nextPost, queue, threads, bulk_upload, distributor>>

\* ---- delete_post -------------------------------------------------------
\* routes.delete_post (cancel: it removes the job named by post.job_id while
\* the post is scheduled) and enhanced_routes.delete_post (no cancel): the
\* post row is deleted; what a handler already running has read of it, the
\* list of platforms, stays with the handler
DeletePost(p, cancel) ==
    /\ posts[p].exists
    /\ jobs' = IF cancel /\ posts[p].status = "scheduled"
               THEN {j \in jobs : ~(/\ j.kind = "post" /\ j.target = p
                                    /\ j.stamp = posts[p].job_id)}
               ELSE jobs
    /\ posts' = [posts EXCEPT ![p] =
                    [NoPost EXCEPT !.platforms = posts[p].platforms]]
    /\ UNCHANGED <<now, nextPost, queue, threads, bulk_upload, distributor>>

\* ---- the scheduler fires a due job on a free pool thread ---------------
Fire_AnyTime(j, t) ==
    /\ j \in jobs
    /\ threads[t] = Idle
    /\ \A u \in ThreadIds : u < t => threads[u] # Idle
    /\ jobs' = jobs \ {j}
    /\ threads' = [threads EXCEPT ![t] =
          IF j.kind = "post"
          THEN [Idle EXCEPT !.kind = "publish", !.pc = "load", !.post = j.target]
          ELSE [Idle EXCEPT !.kind = "retry", !.pc = "load", !.qid = j.target]]
    /\ UNCHANGED <<now, posts, nextPost, queue, bulk_upload, distributor>>

Fire(j, t) ==
    /\ j \in jobs
    /\ j.run_date <= now
    /\ threads[t] = Idle
    /\ \A u \in ThreadIds : u < t => threads[u] # Idle
    /\ jobs' = jobs \ {j}
    /\ threads' = [threads EXCEPT ![t] =
          IF j.kind = "post"
          THEN [Idle EXCEPT !.kind = "publish", !.pc = "load", !.post = j.target]
          ELSE [Idle EXCEPT !.kind = "retry", !.pc = "load", !.qid = j.target]]
    /\ UNCHANGED <<now, posts, nextPost, queue, bulk_upload, distributor>>

\* ---- post_to_platform -------------------------------------------------
\* the results post_to_platform(post, platform) can return: no active
\* account, an expired token whose refresh fails, an exception of the
\* platform call, or success; reading a post whose row is gone raises
\* inside its try block and comes back as an error
PostToPlatform(post, pl) ==
    IF post.exists THEN {"success", "no_account", "token_expired", "error"}
    ELSE {"error"}

RetryAllowed_OneMore(attempts) == attempts <= MaxAttempts

RetryAllowed_OneLess(attempts) == attempts < MaxAttempts - 1

\* `if queue_item.attempts < queue_item.max_attempts`
RetryAllowed(attempts) == attempts < MaxAttempts

ScheduleRetry_RunNow(js, q, next_attempt) ==
    IF next_attempt = NoTime THEN js
    ELSE AddJob(js, [kind |-> "retry", target |-> q, stamp |-> now,
                     run_date |-> now])

\* schedule_retry(queue_id): the job store after the call
ScheduleRetry(js, q, next_attempt) ==
    IF next_attempt = NoTime THEN js
    ELSE AddJob(js, [kind |-> "retry", target |-> q, stamp |-> now,
                     run_date |-> next_attempt])

\* ---- publish_post -------------------------------------------------------
Dispatchable_NoStatusCheck(post) == post.exists

Dispatchable_Always(post) == TRUE

\* `if not post: return` and `if post.status != 'scheduled': return`
Dispatchable(post) == post.exists /\ post.status = "scheduled"

\* Post.query.get and the two early returns
PublishLoad(t) ==
    /\ threads[t].kind = "publish" /\ threads[t].pc = "load"
    /\ LET p == threads[t].post IN
        threads' = [threads EXCEPT ![t] =
            IF Dispatchable(posts[p])
            THEN [@ EXCEPT !.pc = "mark"]
            ELSE Idle]
    /\ UNCHANGED <<now, posts, nextPost, queue, jobs, bulk_upload, distributor>>

\* post.status = 'posting'; commit (the commit raises when the post row is
\* gone, and the except block finds no post to write to)
PublishMark(t) ==
    /\ threads[t].kind = "publish" /\ threads[t].pc = "mark"
    /\ LET p == threads[t].post IN
        IF posts[p].exists
        THEN /\ posts' = [posts EXCEPT ![p].status = "posting"]
             /\ threads' = [threads EXCEPT ![t].pc = "create", ![t].i = 1]
        ELSE /\ posts' = posts
             /\ threads' = [threads EXCEPT ![t] = Idle]
    /\ UNCHANGED <<now, nextPost, queue, jobs, bulk_upload, distributor>>

\* head of the loop: PostQueue(post_id, platform, status='processing'); commit
\* (failures is a history field: the number of failed publish calls of the row)
PublishCreate(t) ==
    /\ threads[t].kind = "publish" /\ threads[t].pc = "create"
    /\ LET p == threads[t].post
           i == threads[t].i
       IN IF i <= Len(posts[p].platforms)
          THEN /\ queue' = Append(queue,
                      [post_id |-> p, platform |-> posts[p].platforms[i],
                       status |-> "processing", attempts |-> 0,
                       next_attempt |-> NoTime, error_message |-> "",
                       failures |-> 0])
               /\ threads' = [threads EXCEPT ![t].pc = "post",
                                             ![t].qid = Len(queue) + 1]
          ELSE /\ queue' = queue
               /\ threads' = [threads EXCEPT ![t].pc = "final"]
    /\ UNCHANGED <<now, posts, nextPost, jobs, bulk_upload, distributor>>

PublishOutcome_FailureEscapes(t, res) ==
    /\ threads[t].kind = "publish" /\ threads[t].pc = "post"
    /\ LET q == threads[t].qid
           item == queue[q]
       IN /\ res \in PostToPlatform(posts[item.post_id], item.platform)
          /\ IF res = "success"
             THEN /\ queue' = [queue EXCEPT ![q].status = "completed"]
                  /\ threads' = [threads EXCEPT ![t].pc = "create",
                                   ![t].i = @ + 1, ![t].success_count = @ + 1]
             ELSE /\ queue' = queue
                  /\ threads' = [threads EXCEPT ![t] = Idle]
    /\ UNCHANGED <<now, posts, nextPost, jobs, bulk_upload, distributor>>

PublishOutcome_StopOnFailure(t, res) ==
    /\ threads[t].kind = "publish" /\ threads[t].pc = "post"
    /\ LET q == threads[t].qid
           item == queue[q]
       IN /\ res \in PostToPlatform(posts[item.post_id], item.platform)
          /\ IF res = "success"
             THEN /\ queue' = [queue EXCEPT ![q].status = "completed"]
                  /\ threads' = [threads EXCEPT ![t].pc = "create",
                                   ![t].i = @ + 1, ![t].success_count = @ + 1]
             ELSE /\ queue' = [queue EXCEPT ![q].status = "failed",
                                  ![q].error_message = res,
                                  ![q].attempts = item.attempts + 1,
                                  ![q].failures = @ + 1]
                  /\ threads' = [threads EXCEPT ![t].pc = "final"]
    /\ UNCHANGED <<now, posts, nextPost, jobs, bulk_upload, distributor>>

\* body of the loop: post_to_platform, the queue item's outcome, commit
PublishOutcome(t, res) ==
    /\ threads[t].kind = "publish" /\ threads[t].pc = "post"
    /\ LET q == threads[t].qid
           item == queue[q]
           att == item.attempts + 1
           next == IF RetryAllowed(att) THEN now + RetryDelayFirst ELSE item.next_attempt
       IN /\ res \in PostToPlatform(posts[item.post_id], item.platform)
          /\ IF res = "success"
             THEN /\ queue' = [queue EXCEPT ![q].status = "completed"]
                  /\ jobs' = jobs
                  /\ threads' = [threads EXCEPT ![t].pc = "create",
                                   ![t].i = @ + 1, ![t].success_count = @ + 1]
             ELSE /\ queue' = [queue EXCEPT ![q].status = "failed",
                                  ![q].error_message = res,
                                  ![q].attempts = att,
                                  ![q].next_attempt = next,
                                  ![q].failures = @ + 1]
                  /\ jobs' = IF RetryAllowed(att) THEN ScheduleRetry(jobs, q, next)
                             ELSE jobs
                  /\ threads' = [threads EXCEPT ![t].pc = "create", ![t].i = @ + 1]
    /\ UNCHANGED <<now, posts, nextPost, bulk_upload, distributor>>

\* "# Update post status": the status and posted_at written after the loop
DispatchStatus(post, success_count, n) ==
    IF success_count = n
    THEN [post EXCEPT !.status = "posted", !.posted_at = now]
    ELSE IF success_count > 0
    THEN [post EXCEPT !.status = "partial", !.posted_at = now]
    ELSE [post EXCEPT !.status = "failed",
                      !.error_message = "Failed to post to any platform"]

PublishFinal(t) ==
    /\ threads[t].kind = "publish" /\ threads[t].pc = "final"
    /\ LET p == threads[t].post IN
        posts' = IF posts[p].exists
                 THEN [posts EXCEPT ![p] =
                     DispatchStatus(@, threads[t].success_count, Len(@.platforms))]
                 ELSE posts
    /\ threads' = [threads EXCEPT ![t] = Idle]
    /\ UNCHANGED <<now, nextPost, queue, jobs, bulk_upload, distributor>>

\* `except Exception as e`: an internal error inside the try block
PublishAbort(t) ==
    /\ threads[t].kind = "publish" /\ threads[t].pc \in {"create", "post", "final"}
    /\ LET p == threads[t].post IN
        posts' = IF posts[p].exists
                 THEN [posts EXCEPT ![p].status = "failed",
                                    ![p].error_message = "exception"]
                 ELSE posts
    /\ threads' = [threads EXCEPT ![t] = Idle]
    /\ UNCHANGED <<now, nextPost, queue, jobs, bulk_upload, distributor>>

\* ---- retry_post ---------------------------------------------------------
RetryLoad_AllRows(t) ==
    /\ threads[t].kind = "retry" /\ threads[t].pc = "load"
    /\ LET q == threads[t].qid IN
        IF q \in 1..Len(queue) /\ posts[queue[q].post_id].exists
        THEN /\ queue' = [r \in 1..Len(queue) |->
                            IF queue[r].post_id = queue[q].post_id
                            THEN [queue[r] EXCEPT !.status = "processing",
                                                  !.attempts = @ + 1]
                            ELSE queue[r]]
             /\ threads' = [threads EXCEPT ![t].pc = "post",
                                           ![t].post = queue[q].post_id]
        ELSE /\ queue' = queue
             /\ threads' = [threads EXCEPT ![t] = Idle]
    /\ UNCHANGED <<now, posts, nextPost, jobs, bulk_upload, distributor>>

RetryLoad_NoPostCheck(t) ==
    /\ threads[t].kind = "retry" /\ threads[t].pc = "load"
    /\ LET q == threads[t].qid IN
        /\ queue' = [queue EXCEPT ![q].status = "processing",
                                  ![q].attempts = @ + 1]
        /\ threads' = [threads EXCEPT ![t].pc = "post",
                                      ![t].post = queue[q].post_id]
    /\ UNCHANGED <<now, posts, nextPost, jobs, bulk_upload, distributor>>

\* PostQueue.query.get and `if not queue_item: return`, queue_item.post and
\* `if not post: return`; status = 'processing'; attempts += 1; commit
RetryLoad(t) ==
    /\ threads[t].kind = "retry" /\ threads[t].pc = "load"
    /\ LET q == threads[t].qid IN
        IF q \in 1..Len(queue) /\ posts[queue[q].post_id].exists
        THEN /\ queue' = [queue EXCEPT ![q].status = "processing",
                                       ![q].attempts = @ + 1]
             /\ threads' = [threads EXCEPT ![t].pc = "post",
                                           ![t].post = queue[q].post_id]
        ELSE /\ queue' = queue
             /\ threads' = [threads EXCEPT ![t] = Idle]
    /\ UNCHANGED <<now, posts, nextPost, jobs, bulk_upload, distributor>>

\* "# Check if all platforms completed": the post after a successful retry
RetryStatus(post, completed_queue, total_queue) ==
    IF completed_queue = total_queue
    THEN [post EXCEPT !.status = "posted", !.posted_at = now]
    ELSE IF completed_queue > 0 /\ post.status = "failed"
    THEN [post EXCEPT !.status = "partial", !.posted_at = now]
    ELSE post

\* post_to_platform, the queue item's outcome, the post's status, commit
RetryOutcome(t, res) ==
    /\ threads[t].kind = "retry" /\ threads[t].pc = "post"
    /\ LET q == threads[t].qid
           p == threads[t].post
           item == queue[q]
           next == IF RetryAllowed(item.attempts) THEN now + RetryDelayNext
                   ELSE item.next_attempt
       IN /\ res \in PostToPlatform(posts[p], item.platform)
          /\ IF res = "success"
             THEN /\ queue' = [queue EXCEPT ![q].status = "completed"]
                  /\ jobs' = jobs
                  /\ LET total_queue == Cardinality(RowsOf(p))
                         completed_queue == Cardinality(
                             {r \in RowsOf(p) : queue'[r].status = "completed"})
                     IN posts' = [posts EXCEPT ![p] =
                                     RetryStatus(@, completed_queue, total_queue)]
             ELSE /\ queue' = [queue EXCEPT ![q].status = "failed",
                                  ![q].error_message = res,
                                  ![q].next_attempt = next,
                                  ![q].failures = @ + 1]
                  /\ jobs' = IF RetryAllowed(item.attempts)
                             THEN ScheduleRetry(jobs, q, next) ELSE jobs
                  /\ posts' = posts
    /\ threads' = [threads EXCEPT ![t] = Idle]
    /\ UNCHANGED <<now, nextPost, bulk_upload, distributor>>

\* `except Exception as e`: logged, nothing written
RetryAbort(t) ==
    /\ threads[t].kind = "retry" /\ threads[t].pc = "post"
    /\ threads' = [threads EXCEPT ![t] = Idle]
    /\ UNCHANGED <<now, posts, nextPost, queue, jobs, bulk_upload, distributor>>

\* ---- SchedulingService: the polling engine -------------------------------
\* enhanced_routes.create_post: the post row only, no job
CreatePostApi(S, d) ==
    /\ nextPost < MaxPolledPosts
    /\ S # {}
    /\ posts' = [posts EXCEPT ![nextPost + 1] =
          [exists |-> TRUE, status |-> "scheduled", posted_at |-> NoTime,
           platforms |-> SeqOf(S), scheduled_for |-> now + d,
           job_id |-> NoTime, sched_count |-> 0, error_message |-> "",
           posting_results |-> <<>>]]
    /\ nextPost' = nextPost + 1
    /\ UNCHANGED <<now, queue, jobs, threads, bulk_upload, distributor>>

\* Post.status == 'scheduled', Post.scheduled_time <= now
DuePosts ==
    {p \in PostIds : /\ posts[p].exists
                     /\ posts[p].status = "scheduled"
                     /\ posts[p].scheduled_for <= now}

\* the lists a query without ORDER BY may return for the rows in S
Orderings(S) ==
    {b \in [1..Cardinality(S) -> S] :
        \A k, l \in 1..Cardinality(S) : k # l => b[k] # b[l]}

\* .limit(10).all()
Limit(b) == IF Len(b) <= PollLimit THEN b ELSE SubSeq(b, 1, PollLimit)

\* the poller goes on with the next post of due_posts, or sleeps
PollerNext(due_posts) ==
    IF due_posts = <<>> THEN PollerIdle
    ELSE [PollerIdle EXCEPT !.pc = "mark", !.due_posts = due_posts,
                            !.post = due_posts[1]]

\* _process_due_posts: the query (a round that finds nothing changes nothing)
PollQuery(b) ==
    /\ threads[Poller].pc = "sleep"
    /\ DuePosts # {}
    /\ b \in Orderings(DuePosts)
    /\ threads' = [threads EXCEPT ![Poller] = PollerNext(Limit(b))]
    /\ UNCHANGED <<now, posts, nextPost, queue, jobs, bulk_upload, distributor>>

\* _process_single_post: post.status = 'posting'; commit (on a post whose
\* row is gone the commit raises, the except block raises again, and the
\* round ends in the except block of _run_scheduler)
PollMark ==
    /\ threads[Poller].pc = "mark"
    /\ LET p == threads[Poller].post IN
        IF posts[p].exists
        THEN /\ posts' = [posts EXCEPT ![p].status = "posting"]
             /\ threads' = [threads EXCEPT ![Poller].pc = "call",
                                           ![Poller].i = 1]
        ELSE /\ posts' = posts
             /\ threads' = [threads EXCEPT ![Poller] = PollerIdle]
    /\ UNCHANGED <<now, nextPost, queue, jobs, bulk_upload, distributor>>

\* what one round of the loop over post.target_platforms can find: no
\* account for the platform, or the result of social_media.post_content
PollResults == {"success", "no_account", "error"}

PollCall(res) ==
    /\ threads[Poller].pc = "call"
    /\ res \in PollResults
    /\ LET p == threads[Poller].post
           th == threads[Poller]
       IN threads' = [threads EXCEPT ![Poller] =
            [th EXCEPT
               !.results = Append(@, IF res = "success" THEN "posted" ELSE "failed"),
               !.success_count = IF res = "success" THEN @ + 1 ELSE @,
               !.i = @ + 1,
               !.pc = IF th.i < Len(posts[p].platforms) THEN "call" ELSE "final"]]
    /\ UNCHANGED <<now, posts, nextPost, queue, jobs, bulk_upload, distributor>>

\* "# Update post status" of _process_single_post
PollStatus(post, success_count, results) ==
    IF success_count > 0
    THEN [post EXCEPT !.posting_results = results,
                      !.status = IF success_count = Len(post.platforms)
                                 THEN "posted" ELSE "partial",
                      !.posted_at = now]
    ELSE [post EXCEPT !.posting_results = results, !.status = "failed"]

PollFinal ==
    /\ threads[Poller].pc = "final"
    /\ LET p == threads[Poller].post IN
        IF posts[p].exists
        THEN /\ posts' = [posts EXCEPT ![p] =
                    PollStatus(@, threads[Poller].success_count,
                               threads[Poller].results)]
             /\ threads' = [threads EXCEPT ![Poller] =
                    PollerNext(Tail(threads[Poller].due_posts))]
        ELSE /\ posts' = posts
             /\ threads' = [threads EXCEPT ![Poller] = PollerIdle]
    /\ UNCHANGED <<now, nextPost, queue, jobs, bulk_upload, distributor>>

\* `except Exception as e` of _process_due_posts without its
\* post.status = 'failed'
PollAbort_NoMark ==
    /\ threads[Poller].pc \in {"call", "final"}
    /\ posts' = posts
    /\ threads' = [threads EXCEPT ![Poller] =
           IF posts[threads[Poller].post].exists
           THEN PollerNext(Tail(threads[Poller].due_posts))
           ELSE PollerIdle]
    /\ UNCHANGED <<now, nextPost, queue, jobs, bulk_upload, distributor>>

\* `except Exception as e` of _process_due_posts: an internal error while a
\* post is processed; post.status = 'failed', and on to the next post
PollAbort ==
    /\ threads[Poller].pc \in {"call", "final"}
    /\ LET p == threads[Poller].post IN
        IF posts[p].exists
        THEN /\ posts' = [posts EXCEPT ![p].status = "failed"]
             /\ threads' = [threads EXCEPT ![Poller] =
                    PollerNext(Tail(threads[Poller].due_posts))]
        ELSE /\ posts' = posts
             /\ threads' = [threads EXCEPT ![Poller] = PollerIdle]
    /\ UNCHANGED <<now, nextPost, queue, jobs, bulk_upload, distributor>>

\* half an hour passes while the poller sleeps or waits in a publish call
PollTick ==
    /\ threads[Poller].pc \in {"sleep", "call"}
    /\ Tick

\* the process is killed and started again after a downtime of dt: every
\* thread is gone, whatever was committed stays, and main.py starts the
\* polling thread anew (for the posts of the polling engine, which have no
\* job in the job store)
Restart(dt) ==
    /\ now + dt <= MaxTime
    /\ now' = now + dt
    /\ threads' = [t \in ThreadIds \cup {Poller} |->
                      IF t = Poller THEN PollerIdle ELSE Idle]
    /\ UNCHANGED <<posts, nextPost, queue, jobs, bulk_upload, distributor>>

\* ---- bulk upload: process_bulk_upload of scheduler.py --------------------
UploadTypes == {"daily", "immediate", "custom"}

\* the rows of the uploaded file: the platforms column of each row (empty:
\* none given), for up to MaxItems rows with content
RECURSIVE SeqsUpTo(_, _)
SeqsUpTo(S, n) ==
    IF n = 0 THEN {<<>>}
    ELSE LET shorter == SeqsUpTo(S, n - 1)
         IN shorter \cup {Append(q, x) : q \in shorter, x \in S}

Files == SeqsUpTo(SUBSET Platforms, MaxItems) \ {<<>>}

\* midnight of the day of t: t.replace(hour=0, minute=0)
DayStart(t) == (t \div DayUnits) * DayUnits

\* the platforms of an item: all connected platforms if none is requested,
\* else the requested platforms that are connected
ResolvePlatforms(requested_platforms, connected_platforms) ==
    IF requested_platforms = {} THEN connected_platforms
    ELSE requested_platforms \cap connected_platforms

\* the scheduled time of the item of index i
ScheduledFor(upload_type, start_date, i) ==
    CASE upload_type = "daily" ->
             DayStart(start_date + i * DayUnits) + NineAM
      [] upload_type = "immediate" ->
             now + (i * ImmediateStep) \div MinutesPerUnit
      [] OTHER -> now + i * HourUnits

\* routes.bulk_upload: the rows are read, the BulkUpload record is committed
\* and process_bulk_upload is called
StartBulkUpload(file, upload_type) ==
    /\ ~bulk_upload.exists
    /\ bulk_upload' = [NoBulkUpload EXCEPT
           !.exists = TRUE, !.status = "processing",
           !.total_posts = Len(file), !.upload_type = upload_type,
           !.start_date = now]
    /\ distributor' = [NoDistributor EXCEPT
           !.pc = "load", !.path = "routes", !.file = file,
           !.posts_data = file]
    /\ UNCHANGED <<now, posts, nextPost, queue, jobs, threads>>

\* user.get_connected_platforms(): the platforms the owner has connected
BulkLoad(connected) ==
    /\ distributor.pc = "load"
    /\ distributor' = [distributor EXCEPT
           !.pc = "item", !.connected_platforms = connected]
    /\ UNCHANGED <<now, posts, nextPost, queue, jobs, threads, bulk_upload>>

\* the outer except: the batch-level code raised
BulkAbort ==
    /\ distributor.pc = "load"
    /\ bulk_upload' = [bulk_upload EXCEPT !.status = "failed"]
    /\ distributor' = [distributor EXCEPT !.pc = "done", !.aborted = "batch"]
    /\ UNCHANGED <<now, posts, nextPost, queue, jobs, threads>>

\* one pass of the loop up to the commit of the new post; raises: creating
\* or committing the post raises
BulkCreatePost(raises) ==
    /\ distributor.pc = "item" /\ distributor.path = "routes"
    /\ distributor.i < Len(distributor.posts_data)
    /\ LET platforms == ResolvePlatforms(distributor.posts_data[distributor.i + 1],
                                         distributor.connected_platforms)
           p == nextPost + 1
       IN IF platforms = {} \/ raises
          THEN /\ bulk_upload' = [bulk_upload EXCEPT !.failed_posts = @ + 1]
               /\ distributor' = [distributor EXCEPT
                      !.i = @ + 1,
                      !.outcomes = Append(@, IF platforms = {}
                                             THEN "no_platforms" ELSE "error")]
               /\ UNCHANGED <<posts, nextPost>>
          ELSE /\ posts' = [posts EXCEPT ![p] =
                     [exists |-> TRUE, status |-> "scheduled",
                      posted_at |-> NoTime, platforms |-> SeqOf(platforms),
                      scheduled_for |-> ScheduledFor(bulk_upload.upload_type,
                                           bulk_upload.start_date, distributor.i),
                      job_id |-> NoTime, sched_count |-> 0,
                      error_message |-> "", posting_results |-> <<>>]]
               /\ nextPost' = p
               /\ distributor' = [distributor EXCEPT !.pc = "schedule", !.post = p]
               /\ UNCHANGED bulk_upload
    /\ UNCHANGED <<now, queue, jobs, threads>>

BulkSchedulePost_CountsBoth(ok) ==
    /\ distributor.pc = "schedule"
    /\ LET p == distributor.post IN
       IF ok
       THEN /\ jobs' = AddJob(jobs, SchedulePostJob(p, posts[p].scheduled_for))
            /\ posts' = [posts EXCEPT ![p].job_id = now, ![p].sched_count = 1]
            /\ bulk_upload' = [bulk_upload EXCEPT !.processed_posts = @ + 1]
       ELSE /\ bulk_upload' = [bulk_upload EXCEPT !.processed_posts = @ + 1,
                                                  !.failed_posts = @ + 1]
            /\ UNCHANGED <<posts, jobs>>
    /\ distributor' = [distributor EXCEPT
           !.pc = "item", !.i = @ + 1, !.post = 0,
           !.outcomes = Append(@, IF ok THEN "scheduled" ELSE "not_scheduled")]
    /\ UNCHANGED <<now, nextPost, queue, threads>>

\* the rest of the pass: schedule_post(post.id) and the count of its result;
\* ok: scheduler.add_job does not raise
BulkSchedulePost(ok) ==
    /\ distributor.pc = "schedule"
    /\ LET p == distributor.post IN
       IF ok
       THEN /\ jobs' = AddJob(jobs, SchedulePostJob(p, posts[p].scheduled_for))
            /\ posts' = [posts EXCEPT ![p].job_id = now, ![p].sched_count = 1]
            /\ bulk_upload' = [bulk_upload EXCEPT !.processed_posts = @ + 1]
       ELSE /\ bulk_upload' = [bulk_upload EXCEPT !.failed_posts = @ + 1]
            /\ UNCHANGED <<posts, jobs>>
    /\ distributor' = [distributor EXCEPT
           !.pc = "item", !.i = @ + 1, !.post = 0,
           !.outcomes = Append(@, IF ok THEN "scheduled" ELSE "not_scheduled")]
    /\ UNCHANGED <<now, nextPost, queue, threads>>

\* after the loop: status 'completed'
BulkComplete ==
    /\ distributor.pc = "item" /\ distributor.path = "routes"
    /\ distributor.i = Len(distributor.posts_data)
    /\ bulk_upload' = [bulk_upload EXCEPT !.status = "completed"]
    /\ distributor' = [distributor EXCEPT !.pc = "done"]
    /\ UNCHANGED <<now, posts, nextPost, queue, jobs, threads>>

\* half an hour passes while a bulk upload is at work
BulkTick ==
    /\ now < MaxBulkTime
    /\ distributor.pc \notin {"idle", "done"}
    /\ Tick

\* ---- bulk upload: BulkUploadProcessor of bulk_upload_service.py ----------
\* no usable time in a slot of user.daily_post_times
BadSlot == NoTime
DailyTimes == {<<>>, <<NineAM, BadSlot>>}

\* _extract_post_data: a row without platforms gets the three platforms
ExtractPlatforms(S) == IF S = {} THEN Platforms ELSE S

\* BulkUploadProcessor.process_bulk_upload up to the commit of the
\* BulkUpload record, and the set-up of _create_scheduled_posts.
\* connected: the platforms the owner has connected, which this
\* implementation does not read
StartBulkUploadApi(file, schedule_type, targets, daily_times, connected) ==
    /\ ~bulk_upload.exists
    /\ bulk_upload' = [NoBulkUpload EXCEPT
           !.exists = TRUE, !.status = "processing",
           !.total_posts = Len(file), !.upload_type = schedule_type,
           !.start_date = now, !.target_platforms = targets]
    /\ distributor' = [NoDistributor EXCEPT
           !.pc = "item", !.path = "api", !.connected_platforms = connected,
           !.file = file,
           !.posts_data = [k \in 1..Len(file) |-> ExtractPlatforms(file[k])],
           !.daily_times = IF daily_times = <<>>
                           THEN DefaultDailyTimes ELSE daily_times,
           !.current_date = now]
    /\ UNCHANGED <<now, posts, nextPost, queue, jobs, threads>>

\* db.session.commit() with the posts of session_new pending: they get the
\* next ids of the posts table
InsertPosts(new) ==
    [p \in PostIds |->
        IF p > nextPost /\ p <= nextPost + Len(new)
        THEN new[p - nextPost] ELSE posts[p]]

\* one pass of the loop of _create_scheduled_posts.  A slot that does not
\* parse raises out of the loop, into the except of process_bulk_upload:
\* status 'failed' and a commit, which also writes the posts added so far
ApiCreatePost ==
    /\ distributor.pc = "item" /\ distributor.path = "api"
    /\ distributor.i < Len(distributor.posts_data)
    /\ LET i == distributor.i
           daily_times == distributor.daily_times
           slot == daily_times[(distributor.post_time_index % Len(daily_times)) + 1]
           daily == bulk_upload.upload_type = "daily"
           post_time_index == distributor.post_time_index + 1
           scheduled_time ==
               CASE daily -> DayStart(distributor.current_date) + slot
                 [] bulk_upload.upload_type = "immediate" ->
                        bulk_upload.start_date
                            + (i * ImmediateStep) \div MinutesPerUnit
                 [] OTHER -> bulk_upload.start_date + i * HourUnits
       IN IF daily /\ slot = BadSlot
          THEN /\ bulk_upload' = [bulk_upload EXCEPT !.status = "failed"]
               /\ posts' = InsertPosts(distributor.session_new)
               /\ nextPost' = nextPost + Len(distributor.session_new)
               /\ distributor' = [distributor EXCEPT
                      !.pc = "done", !.session_new = <<>>,
                      !.outcomes = Append(@, "error"), !.aborted = "item"]
          ELSE /\ distributor' = [distributor EXCEPT
                      !.i = @ + 1,
                      !.post_time_index = IF daily THEN post_time_index ELSE @,
                      !.current_date =
                          IF daily /\ post_time_index % Len(daily_times) = 0
                          THEN @ + DayUnits ELSE @,
                      !.session_new = Append(@,
                          [exists |-> TRUE, status |-> "scheduled",
                           posted_at |-> NoTime,
                           platforms |-> SeqOf(distributor.posts_data[i + 1]),
                           scheduled_for |-> scheduled_time,
                           job_id |-> NoTime, sched_count |-> 0,
                           error_message |-> "", posting_results |-> <<>>]),
                      !.outcomes = Append(@, "scheduled")]
               /\ UNCHANGED <<posts, nextPost, bulk_upload>>
    /\ UNCHANGED <<now, queue, jobs, threads>>

\* the commit that ends _create_scheduled_posts
ApiCommitPosts ==
    /\ distributor.pc = "item" /\ distributor.path = "api"
    /\ distributor.i = Len(distributor.posts_data)
    /\ posts' = InsertPosts(distributor.session_new)
    /\ nextPost' = nextPost + Len(distributor.session_new)
    /\ distributor' = [distributor EXCEPT !.pc = "complete", !.session_new = <<>>]
    /\ UNCHANGED <<now, queue, jobs, threads, bulk_upload>>

\* status 'completed', processed_posts = len(posts_data), commit
ApiComplete ==
    /\ distributor.pc = "complete"
    /\ bulk_upload' = [bulk_upload EXCEPT
           !.status = "completed",
           !.processed_posts = Len(distributor.posts_data)]
    /\ distributor' = [distributor EXCEPT !.pc = "done"]
    /\ UNCHANGED <<now, posts, nextPost, queue, jobs, threads>>

\* ---- specification ------------------------------------------------------
Results == {"success", "no_account", "token_expired", "error"}

\* the handlers of the two kinds of job, and the clock; R: the results the
\* publish calls may return
Engine(R) ==
    \/ Tick
    \/ \E j \in jobs, t \in ThreadIds : Fire(j, t)
    \/ \E t \in ThreadIds : PublishLoad(t)
    \/ \E t \in ThreadIds : PublishMark(t)
    \/ \E t \in ThreadIds : PublishCreate(t)
    \/ \E t \in ThreadIds, res \in R : PublishOutcome(t, res)
    \/ \E t \in ThreadIds : PublishFinal(t)
    \/ \E t \in ThreadIds : PublishAbort(t)
    \/ \E t \in ThreadIds : RetryLoad(t)
    \/ \E t \in ThreadIds, res \in R : RetryOutcome(t, res)
    \/ \E t \in ThreadIds : RetryAbort(t)

\* the application as wired: every post is scheduled once, when it is created
Next ==
    \/ \E S \in SUBSET Platforms, d \in 0..MaxDelay : CreatePost(S, d)
    \/ Engine(Results)

Spec == Init /\ [][Next]_vars

\* schedule_post may be called again for an existing post (single-platform posts)
NextResched ==
    \/ \E pl \in Platforms, d \in 0..MaxDelay : CreatePost({pl}, d)
    \/ \E p \in PostIds : SchedulePost(p)
    \/ Engine({"success", "error"})

SpecResched == Init /\ [][NextResched]_vars

\* posts may be deleted, through either route, at any moment
NextDelete ==
    \/ Next
    \/ \E p \in PostIds, cancel \in BOOLEAN : DeletePost(p, cancel)

SpecDelete == Init /\ [][NextDelete]_vars

\* the job store may fail to register the job of a new post
NextEngineFailure ==
    \/ Next
    \/ \E S \in SUBSET Platforms, d \in 0..MaxDelay :
          CreatePostEngineFailure(S, d)

SpecEngineFailure == Init /\ [][NextEngineFailure]_vars

\* ---- a platform whose publish call never returns ------------------------
HangPlatform == PlatformNames[1]

\* the thread waits in a publish call that hangs
Hangs(t) ==
    /\ threads[t].pc = "post"
    /\ queue[threads[t].qid].platform = HangPlatform

\* the steps of the handlers that come about whenever they can: a pool
\* thread that is given a job runs it, and a publish call returns unless
\* it is the one that hangs
Progress(R) ==
    \/ \E j \in jobs, t \in ThreadIds : Fire(j, t)
    \/ \E t \in ThreadIds : PublishLoad(t)
    \/ \E t \in ThreadIds : PublishMark(t)
    \/ \E t \in ThreadIds : PublishCreate(t)
    \/ \E t \in ThreadIds, res \in R : ~Hangs(t) /\ PublishOutcome(t, res)
    \/ \E t \in ThreadIds : PublishFinal(t)
    \/ \E t \in ThreadIds : RetryLoad(t)
    \/ \E t \in ThreadIds, res \in R : ~Hangs(t) /\ RetryOutcome(t, res)

\* a call to HangPlatform that does return
SlowReturn(R) ==
    \/ \E t \in ThreadIds, res \in R : Hangs(t) /\ PublishOutcome(t, res)
    \/ \E t \in ThreadIds, res \in R : Hangs(t) /\ RetryOutcome(t, res)

\* posts for two platforms; a call to HangPlatform may return or hang for
\* ever, every other call returns, with a success or an error
NextHang ==
    \/ \E d \in 0..MaxDelay : CreatePost(Platforms, d)
    \/ Tick
    \/ Progress({"success", "error"})
    \/ SlowReturn({"success", "error"})

SpecHang == Init /\ [][NextHang]_vars /\ WF_vars(Progress({"success", "error"}))

\* the poller waits in a publish call that hangs
PollerHangs ==
    /\ threads[Poller].pc = "call"
    /\ posts[threads[Poller].post].platforms[threads[Poller].i] = HangPlatform

\* the steps of the polling thread that come about whenever they can
PollProgress ==
    \/ \E b \in Orderings(DuePosts) : PollQuery(b)
    \/ PollMark
    \/ \E res \in PollResults : ~PollerHangs /\ PollCall(res)
    \/ PollFinal

\* posts made through the API and published by the polling engine; a call
\* to HangPlatform may return or hang for ever
NextPoll ==
    \/ \E S \in SUBSET Platforms, d \in 0..MaxDelay : CreatePostApi(S, d)
    \/ PollTick
    \/ PollProgress
    \/ \E res \in PollResults : PollerHangs /\ PollCall(res)
    \/ PollAbort

SpecPoll == Init /\ [][NextPoll]_vars /\ WF_vars(PollProgress)

\* the application without internal errors: every handler runs to its end,
\* and only the platform calls fail
NextNoInternalError ==
    \/ \E S \in SUBSET Platforms, d \in 0..MaxDelay : CreatePost(S, d)
    \/ Tick
    \/ Progress(Results)
    \/ SlowReturn(Results)

SpecNoInternalError == Init /\ [][NextNoInternalError]_vars

\* the polling engine with restarts of the process
NextPollRestart ==
    \/ \E S \in SUBSET Platforms, d \in 0..MaxDelay : CreatePostApi(S, d)
    \/ PollTick
    \/ PollProgress
    \/ \E res \in PollResults : PollerHangs /\ PollCall(res)
    \/ \E dt \in 0..MaxDelay : Restart(dt)

SpecPollRestart == Init /\ [][NextPollRestart]_vars

\* both engines at work on the posts of the schedule form: app.py starts
\* the job scheduler and main.py the polling thread, in one process
\* (single-platform posts, calls that succeed or raise)
NextBoth ==
    \/ \E pl \in Platforms, d \in 0..MaxDelay : CreatePost({pl}, d)
    \/ Engine({"success", "error"})
    \/ \E b \in Orderings(DuePosts) : PollQuery(b)
    \/ PollMark
    \/ \E res \in {"success", "error"} : PollCall(res)
    \/ PollFinal

SpecBoth == Init /\ [][NextBoth]_vars

\* a file is uploaded through the form of routes.py
BulkUploadForm ==
    /\ ~bulk_upload.exists
    /\ \E file \in Files, ut \in UploadTypes : StartBulkUpload(file, ut)

\* a file is uploaded through the API of enhanced_routes.py
BulkUploadApi ==
    /\ ~bulk_upload.exists
    /\ \E file \in Files, ut \in UploadTypes,
          tp \in (SUBSET Platforms) \ {{}}, dt \in DailyTimes,
          connected \in SUBSET Platforms :
             StartBulkUploadApi(file, ut, tp, dt, connected)

\* one bulk upload through the form of routes.py
NextBulkRoutes ==
    \/ BulkUploadForm
    \/ \E connected \in SUBSET Platforms : BulkLoad(connected)
    \/ BulkAbort
    \/ \E raises \in BOOLEAN : BulkCreatePost(raises)
    \/ \E ok \in BOOLEAN : BulkSchedulePost(ok)
    \/ BulkComplete
    \/ BulkTick

\* one bulk upload through the API of enhanced_routes.py
NextBulkApi ==
    \/ BulkUploadApi
    \/ ApiCreatePost
    \/ ApiCommitPosts
    \/ ApiComplete
    \/ BulkTick

\* one bulk upload, through the form or through the API
NextBulk ==
    \/ BulkUploadForm
    \/ \E connected \in SUBSET Platforms : BulkLoad(connected)
    \/ BulkAbort
    \/ \E raises \in BOOLEAN : BulkCreatePost(raises)
    \/ \E ok \in BOOLEAN : BulkSchedulePost(ok)
    \/ BulkComplete
    \/ BulkUploadApi
    \/ ApiCreatePost
    \/ ApiCommitPosts
    \/ ApiComplete
    \/ BulkTick

SpecBulkRoutes == Init /\ [][NextBulkRoutes]_vars
SpecBulkApi == Init /\ [][NextBulkApi]_vars
SpecBulk == Init /\ [][NextBulk]_vars

\* ---- vocabulary of the properties ----------------------------------------
Rows == 1..Len(queue)

\* a handler is at work on post p (it has passed its loading step)
Busy(p) ==
    \E t \in ThreadIds :
        /\ threads[t].post = p
        /\ \/ threads[t].kind = "publish" /\ threads[t].pc # "load"
           \/ threads[t].kind = "retry" /\ threads[t].pc = "post"

\* a fired retry job for row q whose handler has not yet loaded the row
RetryStarting(q) ==
    \E t \in ThreadIds :
        threads[t].kind = "retry" /\ threads[t].pc = "load" /\ threads[t].qid = q

Completed(q) == queue[q].status = "completed"
TerminallyFailed(q) ==
    queue[q].status = "failed" /\ queue[q].attempts >= MaxAttempts

\* the status the post's tasks stand for: posted iff all completed, partial
\* iff all terminal with one completed and one failed for good, failed iff
\* all failed for good, in flight otherwise
Aggregate(p) ==
    LET R == RowsOf(p) IN
    IF R # {} /\ \A q \in R : Completed(q) THEN "posted"
    ELSE IF /\ \A q \in R : Completed(q) \/ TerminallyFailed(q)
            /\ \E q \in R : Completed(q)
            /\ \E q \in R : TerminallyFailed(q) THEN "partial"
    ELSE IF R # {} /\ \A q \in R : TerminallyFailed(q) THEN "failed"
    ELSE "inflight"

\* posts at rest whose dispatch pass did not end in the exception handler
Settled(p) ==
    /\ posts[p].exists
    /\ ~Busy(p)
    /\ posts[p].error_message # "exception"

\* ---- C1 -----------------------------------------------------------------
\* C1: in every reachable state, whatever dispatch firings, retry firings
\* and publish results came before, every queue row has
\* attempts <= max_attempts.
C1_AttemptsBounded ==
    \A q \in Rows : queue[q].attempts <= MaxAttempts

\* the last allowed attempt of a row is under way
C1_Witness ==
    \E q \in Rows :
        queue[q].attempts = MaxAttempts /\ queue[q].status = "processing"

\* ---- C2 -----------------------------------------------------------------
Exhausted(q) ==
    queue[q].status = "failed" /\ queue[q].attempts = MaxAttempts

\* C2: a row whose publish failed on the dispatch pass and on every retry
\* is failed with attempts = 3 after exactly 3 failures; from then on no
\* job for the row is pending or running, the row never changes and no job
\* for it is scheduled again.
C2_ExhaustedIsTerminal ==
    /\ [](\A q \in Rows :
            /\ queue[q].failures = MaxAttempts => Exhausted(q)
            /\ Exhausted(q) =>
                  /\ queue[q].failures = MaxAttempts
                  /\ PendingRetryJobs(q) = {}
                  /\ ~RetryStarting(q))
    /\ [][\A q \in Rows :
            Exhausted(q) =>
                /\ queue'[q] = queue[q]
                /\ {j \in jobs' : j.kind = "retry" /\ j.target = q} = {}]_vars

C2_Witness ==
    \E q \in Rows : Exhausted(q) /\ queue[q].failures = MaxAttempts

\* ---- C3 -----------------------------------------------------------------
\* C3: for every post, after every task transition, post.status equals the
\* aggregate of its rows (in flight: scheduled or posting).  Stated for the
\* settled posts only: no handler at work on the post, no internal error.
C3_StatusIsAggregate ==
    \A p \in PostIds :
        Settled(p) =>
            IF Aggregate(p) = "inflight"
            THEN posts[p].status \in {"scheduled", "posting"}
            ELSE posts[p].status = Aggregate(p)

\* ---- C4 -----------------------------------------------------------------
\* C4: post.status is posted if and only if every row of the post is
\* completed (stated for the settled posts).
C4_PostedIffAllCompleted ==
    \A p \in PostIds :
        Settled(p) => (posts[p].status = "posted" <=> Aggregate(p) = "posted")

\* ---- C5 -----------------------------------------------------------------
\* C5: post.status is partial if and only if a row is completed, a row is
\* failed with attempts = max_attempts, and no row is processing or failed
\* with a retry to come (stated for the settled posts).
C5_PartialIffMixedTerminal ==
    \A p \in PostIds :
        Settled(p) => (posts[p].status = "partial" <=> Aggregate(p) = "partial")

\* ---- C6 -----------------------------------------------------------------
\* C6: post.status is failed if and only if every row of the post is failed
\* with attempts = max_attempts (stated for the settled posts).
C6_FailedIffAllTerminallyFailed ==
    \A p \in PostIds :
        Settled(p) => (posts[p].status = "failed" <=> Aggregate(p) = "failed")

\* ---- C7 -----------------------------------------------------------------
\* C7: posted_at is set once, at the first completion of a row of the post,
\* and no later step changes or clears it.
C7_PostedAtSetOnce ==
    [][\A p \in PostIds :
          posts[p].posted_at # NoTime => posts'[p].posted_at = posts[p].posted_at]_vars

\* ---- C8 -----------------------------------------------------------------
\* C8: in every reachable state no two queue rows have the same post and
\* the same platform.
C8_OneRowPerPostPlatform ==
    \A q1, q2 \in Rows :
        (queue[q1].post_id = queue[q2].post_id
            /\ queue[q1].platform = queue[q2].platform) => q1 = q2

C11_NoAccountIsPermanent ==
    \A q \in Rows :
        (/\ queue[q].status = "failed"
         /\ queue[q].failures = 1
         /\ queue[q].error_message = "no_account")
        => /\ queue[q].attempts = MaxAttempts
           /\ PendingRetryJobs(q) = {}
           /\ ~RetryStarting(q)

\* ---- C12 ----------------------------------------------------------------
\* C12: a row that failed because the platform's token is expired and could
\* not be refreshed has no retry job pending or starting.
C12_TokenUnavailableIsPermanent ==
    \A q \in Rows :
        (queue[q].status = "failed" /\ queue[q].error_message = "token_expired")
        => (PendingRetryJobs(q) = {} /\ ~RetryStarting(q))

\* ---- C13 ----------------------------------------------------------------
\* C13: the retry scheduled after the first failed publish call of a row has
\* next_attempt = now + 30 minutes (1 unit), the retry scheduled after every
\* later failed call has next_attempt = now + 60 minutes (2 units), and a
\* pending retry job runs at the next_attempt of its row.
C13_EscalatingBackoff ==
    /\ [](\A j \in jobs :
            j.kind = "retry" => j.run_date = queue[j.target].next_attempt)
    /\ [][\A q \in Rows :
            (/\ queue'[q].failures = queue[q].failures + 1
             /\ queue'[q].attempts < MaxAttempts)
            => /\ queue'[q].next_attempt =
                     now + (IF queue'[q].failures = 1 THEN 1 ELSE 2)
               /\ \E j \in jobs' :
                     /\ j.kind = "retry" /\ j.target = q
                     /\ j.run_date = queue'[q].next_attempt]_vars

\* the second failure of a row has scheduled its retry an hour ahead
C13_Witness ==
    \E q \in Rows :
        /\ queue[q].status = "failed"
        /\ queue[q].failures = 2
        /\ queue[q].next_attempt = now + 2
        /\ \E j \in PendingRetryJobs(q) : j.run_date = now + 2


\* ---- C14 ----------------------------------------------------------------
\* C14: after schedule_post has been called twice for the same post, at
\* most one dispatch job for that post is pending (the second call replaces
\* the timer of the first).
C14_RescheduleReplacesPendingJob ==
    \A p \in PostIds : Cardinality(PendingPostJobs(p)) <= 1

\* ---- C15 ----------------------------------------------------------------
\* a thread takes up the fired retry job j in this step
RetryFires(j) ==
    \E t \in ThreadIds :
        /\ threads[t] = Idle
        /\ threads'[t].kind = "retry" /\ threads'[t].pc = "load"
        /\ threads'[t].qid = j.target

\* C15: the id of a retry job differs from the id of every other pending
\* job, dispatch or retry, and a pending retry job leaves the job store only
\* by firing: no schedule_post and no schedule_retry call replaces it.
C15_RetryJobNeverReplaced ==
    /\ [](\A j \in jobs, k \in jobs :
            (j.kind = "retry" /\ k # j) => JobId(k) # JobId(j))
    /\ [][\A j \in jobs :
            j.kind = "retry" => (j \in jobs' \/ RetryFires(j))]_vars

\* schedule_post was called for the post while the retry job of its row
\* was pending, and the retry job is still there
C15_Witness ==
    \E j \in jobs, k \in jobs :
        /\ j.kind = "retry" /\ k.kind = "post"
        /\ queue[j.target].post_id = k.target
        /\ k.stamp > j.stamp

\* ---- C16 ----------------------------------------------------------------
\* C16: a step of a retry handler for row q leaves every other row of the
\* queue as it is (status, attempts, error_message, next_attempt and the
\* number of publish calls made for it), creates no row, and leaves every
\* post other than the row's own as it is.
C16_RetryTouchesOnlyItsRow ==
    [][\A t \in ThreadIds :
          (threads[t].kind = "retry" /\ threads'[t] # threads[t])
          => /\ Len(queue') = Len(queue)
             /\ \A r \in Rows : r # threads[t].qid => queue'[r] = queue[r]
             /\ \A p \in PostIds :
                   (threads[t].qid \in Rows /\ p # queue[threads[t].qid].post_id)
                       => posts'[p] = posts[p]]_vars

\* a retry of one row has run and failed while the other row of the post,
\* failed on the dispatch pass, still waits for its own retry
C16_Witness ==
    \E q, r \in Rows :
        /\ q # r /\ queue[q].post_id = queue[r].post_id
        /\ queue[q].failures = 2 /\ queue[q].attempts = 2
        /\ queue[r].status = "failed" /\ queue[r].attempts = 1
        /\ PendingRetryJobs(r) # {}

\* ---- C17 ----------------------------------------------------------------
\* the row of a retry job is gone with its post, or is completed
DeletedOrCompleted(q) ==
    \/ q \notin Rows
    \/ ~posts[queue[q].post_id].exists
    \/ queue[q].status = "completed"

AttemptedOnce(r) ==
    IF queue[r].attempts = 0
    THEN queue[r].status = "completed" /\ queue[r].failures = 0
    ELSE /\ queue[r].failures >= 1
         /\ queue[r].attempts = 1 =>
               (queue[r].status = "failed" /\ queue[r].failures = 1)

\* C18: when the loop of a dispatch pass is over, whatever the results of
\* its publish calls were, the pass has gone through every platform of the
\* post, and every platform has exactly one row, which has had the one
\* publish call of the pass and is completed or failed by it.
C18_FailureDoesNotStopThePass ==
    \A t \in ThreadIds :
        (threads[t].kind = "publish" /\ threads[t].pc = "final")
        => LET p == threads[t].post
               n == Len(posts[p].platforms)
           IN /\ threads[t].i = n + 1
              /\ Cardinality(RowsOf(p)) = n
              /\ \A k \in 1..n :
                    \E r \in RowsOf(p) :
                        /\ queue[r].platform = posts[p].platforms[k]
                        /\ AttemptedOnce(r)

\* the loop is over; the call for the first platform failed, the call for
\* the second was made all the same and succeeded
C18_Witness ==
    \E t \in ThreadIds :
        /\ threads[t].kind = "publish" /\ threads[t].pc = "final"
        /\ \E q, r \in RowsOf(threads[t].post) :
              /\ q < r
              /\ queue[q].status = "failed" /\ queue[q].failures = 1
              /\ queue[r].status = "completed"

\* ---- C19 ----------------------------------------------------------------
\* C19: when the publish call for one platform of a post hangs, every other
\* platform of the post still gets its publish call: once the dispatch pass
\* has begun, each platform other than the hanging one eventually has a row
\* that is completed or failed.
C19_HangDoesNotBlockOtherPlatforms ==
    \A p \in PostIds : \A pl \in Platforms \ {HangPlatform} :
        (posts[p].status = "posting")
            ~> (\E r \in RowsOf(p) :
                    /\ queue[r].platform = pl
                    /\ queue[r].status \in {"completed", "failed"})

\* ---- C20 ----------------------------------------------------------------
\* C20: while the polling engine's publish call for one post is slow or
\* hangs, every other post that is due (scheduled, its time passed) is
\* still eventually dispatched: it leaves the status scheduled.
C20_HangDoesNotBlockOtherPosts ==
    \A p \in PostIds :
        (p \in DuePosts) ~> (posts[p].status # "scheduled")

\* ---- C21 ----------------------------------------------------------------
\* everything about post p has come to its end: no handler at work on it,
\* one row per platform, every row completed or failed for good, and no
\* retry job of its rows pending or starting
Final(p) ==
    /\ Settled(p)
    /\ Cardinality(RowsOf(p)) = Len(posts[p].platforms)
    /\ \A q \in RowsOf(p) :
          /\ Completed(q) \/ TerminallyFailed(q)
          /\ PendingRetryJobs(q) = {}
          /\ ~RetryStarting(q)

\* C21: however the steps of the dispatch pass and of the retry firings of
\* one post interleave, the status the post ends with is the aggregate of
\* the states its rows end with, and every failed publish call of a row is
\* counted in the row's attempts.
C21_NoLostUpdate ==
    \A p \in PostIds :
        Final(p) =>
            /\ posts[p].status = Aggregate(p)
            /\ \A q \in RowsOf(p) : queue[q].attempts >= queue[q].failures

\* ---- C22 ----------------------------------------------------------------
\* post p was created and has been deleted
Deleted(p) == p <= nextPost /\ ~posts[p].exists

\* C22: once a post is deleted, whatever its status was, no dispatch job of
\* the post and no retry job of any of its rows is pending.
C22_DeleteCancelsAllJobs ==
    \A p \in PostIds :
        Deleted(p) =>
            /\ PendingPostJobs(p) = {}
            /\ \A q \in RowsOf(p) : PendingRetryJobs(q) = {}

\* ---- C23 ----------------------------------------------------------------
\* thread t has been given a fired job whose post is deleted
FiredForDeleted(t) ==
    /\ threads[t].pc = "load"
    /\ \/ threads[t].kind = "publish" /\ Deleted(threads[t].post)
       \/ /\ threads[t].kind = "retry"
          /\ threads[t].qid \in Rows
          /\ Deleted(queue[threads[t].qid].post_id)

\* C23: the handler of a dispatch job or of a retry job that fired for a
\* deleted post returns at once: no queue row and no post is created or
\* written, no job is scheduled, and no publish call is reached.
C23_FiringForDeletedPostIsNoOp ==
    [][\A t \in ThreadIds :
          (FiredForDeleted(t) /\ threads'[t] # threads[t])
          => /\ queue' = queue
             /\ posts' = posts
             /\ jobs' = jobs
             /\ threads'[t] = Idle]_vars

\* the dispatch job of a post deleted without cancelling it has fired
C23_Witness ==
    \E t \in ThreadIds :
        /\ FiredForDeleted(t)
        /\ threads[t].kind = "publish"
        /\ RowsOf(threads[t].post) = {}

\* ---- C24 ----------------------------------------------------------------
\* the fired dispatch job of post p is about to load the post or to mark it
DispatchStarting(p) ==
    \E t \in ThreadIds :
        /\ threads[t].kind = "publish" /\ threads[t].post = p
        /\ threads[t].pc \in {"load", "mark"}

\* C24: no post is left in status scheduled without a dispatch job, pending
\* or just fired; a post whose job could not be registered is marked failed.
C24_ScheduledPostHasJob ==
    \A p \in PostIds :
        (posts[p].exists /\ posts[p].status = "scheduled")
            => (PendingPostJobs(p) # {} \/ DispatchStarting(p))

\* ---- C25 ----------------------------------------------------------------
\* a handler waits for the result of its publish call for row q
InPublishCall(q) ==
    \E t \in ThreadIds : threads[t].pc = "post" /\ threads[t].qid = q

\* C25: every failed publish call, on the dispatch pass and on a retry,
\* leaves its row failed with error_message set; a row is processing only
\* while the handler that took it up waits for the call's result.
C25_FailuresBecomeRowStates ==
    /\ [](\A q \in Rows :
            /\ queue[q].status = "processing" => InPublishCall(q)
            /\ queue[q].status = "failed" => queue[q].error_message # "")
    /\ [][\A q \in Rows :
            queue'[q].failures = queue[q].failures + 1
            => /\ queue'[q].status = "failed"
               /\ queue'[q].error_message \in Results \ {"success"}]_vars

\* a publish call failed on the dispatch pass and again on the retry, and
\* both handlers have returned
C25_Witness ==
    \E q \in Rows :
        /\ queue[q].status = "failed" /\ queue[q].failures = 2
        /\ queue[q].error_message = "error"
        /\ \A t \in ThreadIds : threads[t] = Idle

\* ---- C26 ----------------------------------------------------------------
\* C26: also after a restart, the due posts are dispatched in ascending
\* order of their scheduled times: a post leaves the status scheduled only
\* when no other due post has an earlier scheduled time.
C26_RecoveryInRunAtOrder ==
    [][\A p \in PostIds :
          (posts[p].status = "scheduled" /\ posts'[p].status = "posting")
          => \A r \in DuePosts :
                posts[r].scheduled_for >= posts[p].scheduled_for]_vars

\* ---- C27 ----------------------------------------------------------------
\* a handler of either engine is past the status check of post p: it is
\* about to publish, publishing, or writing the outcome
Dispatching(p) ==
    \/ \E t \in ThreadIds :
          /\ threads[t].kind = "publish" /\ threads[t].post = p
          /\ threads[t].pc \in {"mark", "create", "post", "final"}
    \/ /\ threads[Poller].post = p
       /\ threads[Poller].pc \in {"mark", "call", "final"}

Counted == bulk_upload.processed_posts + bulk_upload.failed_posts

\* the distributor has finished the pass of one more item
ItemDone == distributor'.i = distributor.i + 1

\* C28: at every point of a bulk upload processed_posts + failed_posts <=
\* total_posts, and no item is counted twice: the counters never account
\* for more items than the loop has finished.  In process_bulk_upload of
\* scheduler.py every finished item adds 1 to exactly one counter and
\* nothing else changes the counters; BulkUploadProcessor counts all items
\* at once, when it completes the batch.
C28_CountersBounded ==
    /\ [](/\ Counted <= bulk_upload.total_posts
          /\ Counted <= distributor.i)
    /\ [][/\ (distributor.path = "routes" /\ ItemDone) =>
                \/ /\ bulk_upload'.processed_posts = bulk_upload.processed_posts + 1
                   /\ bulk_upload'.failed_posts = bulk_upload.failed_posts
                \/ /\ bulk_upload'.failed_posts = bulk_upload.failed_posts + 1
                   /\ bulk_upload'.processed_posts = bulk_upload.processed_posts
          /\ (bulk_upload.exists /\ ~ItemDone) =>
                \/ /\ bulk_upload'.processed_posts = bulk_upload.processed_posts
                   /\ bulk_upload'.failed_posts = bulk_upload.failed_posts
                \/ /\ distributor.path = "api"
                   /\ bulk_upload'.status = "completed"
                   /\ bulk_upload'.processed_posts = bulk_upload.total_posts
                   /\ bulk_upload'.failed_posts = bulk_upload.failed_posts]_vars

\* a batch of MaxItems items with both counters above 0 and every item
\* counted
C28_Witness ==
    /\ bulk_upload.total_posts = MaxItems
    /\ bulk_upload.processed_posts > 0
    /\ bulk_upload.failed_posts > 0
    /\ Counted = MaxItems

\* ---- C29 ----------------------------------------------------------------
Items == 1..Len(distributor.posts_data)

\* the resolved platform set of item k is empty: none of the platforms of
\* the item is connected
ResolvedEmpty(k) ==
    ResolvePlatforms(distributor.posts_data[k],
                     distributor.connected_platforms) = {}

\* the pass of item k raised, or its schedule call failed
ItemError(k) ==
    k <= Len(distributor.outcomes)
        /\ distributor.outcomes[k] \in {"error", "not_scheduled"}

\* the posts that were created and scheduled: in the table with status
\* scheduled and, for the posts of scheduler.py, with their job pending
CreatedAndScheduled ==
    {p \in PostIds : /\ posts[p].exists /\ posts[p].status = "scheduled"
                     /\ distributor.path = "routes" => PendingPostJobs(p) # {}}

\* C29: when the batch is completed every item is accounted for:
\* processed_posts + failed_posts = total_posts, failed_posts is the number
\* of items with an empty resolved platform set or a per-item error,
\* processed_posts is the number of posts created and scheduled; with one
\* item of empty platform set and no other failure: total_posts - 1
\* processed, 1 failed.
C29_CompletedAccountsForAll ==
    bulk_upload.status = "completed" =>
        /\ Counted = bulk_upload.total_posts
        /\ bulk_upload.failed_posts =
               Cardinality({k \in Items : ResolvedEmpty(k) \/ ItemError(k)})
        /\ bulk_upload.processed_posts = Cardinality(CreatedAndScheduled)
        /\ (/\ Cardinality({k \in Items : ResolvedEmpty(k)}) = 1
            /\ \A k \in Items : ~ItemError(k))
           => /\ bulk_upload.processed_posts = bulk_upload.total_posts - 1
              /\ bulk_upload.failed_posts = 1

\* ---- C30 ----------------------------------------------------------------
\* the request has returned and the batch-level code did not raise
Distributed == distributor.pc = "done" /\ distributor.aborted # "batch"

\* C30: a per-item failure never aborts the batch: when the distribution
\* has returned every item has had its pass, also the items after one that
\* failed, and the batch is not failed; the posts created for earlier items
\* stay in the table, scheduled, while the later items are processed.
C30_ItemFailureDoesNotAbort ==
    /\ [](Distributed =>
            /\ Len(distributor.outcomes) = Len(distributor.posts_data)
            /\ distributor.i = Len(distributor.posts_data)
            /\ bulk_upload.status = "completed")
    /\ [][\A p \in PostIds :
            (posts[p].exists /\ posts[p].status = "scheduled")
            => (posts'[p].exists /\ posts'[p].status = "scheduled")]_vars

\* ---- C31 ----------------------------------------------------------------
\* C31: the batch is failed only when the batch-level code raised, never
\* because of the failure of an item; and when the distribution has
\* returned the batch is completed or failed, not processing.
C31_FailedOnlyOnBatchError ==
    /\ bulk_upload.status = "failed" => distributor.aborted = "batch"
    /\ distributor.pc = "done" => bulk_upload.status \in {"completed", "failed"}

\* ---- C32 ----------------------------------------------------------------
\* the row of item k names platforms
Explicit(k) == distributor.file[k] # {}

\* the platforms of a post, as a set
PlatformSet(post) == {post.platforms[n] : n \in 1..Len(post.platforms)}

\* the distributor takes a step of the pass of item k
ItemStep(k) ==
    /\ distributor.pc = "item" /\ distributor.i = k - 1
    /\ distributor' # distributor

\* the posts the step creates: the row committed by process_bulk_upload of
\* scheduler.py, or the post BulkUploadProcessor adds to the session
NewPosts ==
    (IF distributor.path = "routes" /\ nextPost' = nextPost + 1
     THEN {posts'[nextPost']} ELSE {})
    \cup
    (IF Len(distributor'.session_new) = Len(distributor.session_new) + 1
     THEN {distributor'.session_new[Len(distributor'.session_new)]} ELSE {})

\* C32: for an item with an explicit platform subset the created post has
\* exactly the platforms of the subset that the owner has connected; when
\* none of them is connected failed_posts is incremented by 1, no post is
\* created and no schedule call is made for the item.
C32_ExplicitPlatformsIntersected ==
    [][\A k \in Items : (Explicit(k) /\ ItemStep(k)) =>
          LET wanted == distributor.file[k] \cap distributor.connected_platforms
          IN IF wanted = {}
             THEN /\ bulk_upload'.failed_posts = bulk_upload.failed_posts + 1
                  /\ NewPosts = {}
                  /\ jobs' = jobs /\ distributor'.pc # "schedule"
             ELSE \A post \in NewPosts : PlatformSet(post) = wanted]_vars

\* ---- C33 ----------------------------------------------------------------
\* C33: the post created for an item without platforms of its own gets the
\* default platforms of the batch, bulk_upload.target_platforms.
C33_DefaultPlatformsOfBatch ==
    [][\A k \in Items : (~Explicit(k) /\ ItemStep(k)) =>
          \A post \in NewPosts :
              PlatformSet(post) = bulk_upload.target_platforms]_vars

\* ---- C34 ----------------------------------------------------------------
\* the daily slots of the owner: user.daily_post_times, or 09:00 and 18:00
\* for an owner who has set none
OwnerSlots ==
    IF distributor.daily_times = <<>> THEN DefaultDailyTimes
    ELSE distributor.daily_times

\* C34: under the daily policy with n slots the item of index i is
\* scheduled on the day of start_date + (i div n) days at the time of day
\* slots[i mod n]: all slots of a day are used before the date advances.
C34_DailySlots ==
    [][\A k \in Items : (bulk_upload.upload_type = "daily" /\ ItemStep(k)) =>
          LET n == Len(OwnerSlots)
              i == k - 1
          IN \A post \in NewPosts :
                post.scheduled_for =
                    DayStart(bulk_upload.start_date) + (i \div n) * DayUnits
                        + OwnerSlots[(i % n) + 1]]_vars

\* ---- C35 ----------------------------------------------------------------
\* C35: under the immediate and the custom policy the item of index i is
\* scheduled at start_date + i * step, counted from the start of the batch
\* and not from the moment the item is processed; the step is 2 minutes
\* for immediate and 1 hour for custom.
C35_StepsFromStartTime ==
    [][\A k \in Items :
          (bulk_upload.upload_type \in {"immediate", "custom"} /\ ItemStep(k)) =>
          LET i == k - 1
              offset == IF bulk_upload.upload_type = "immediate"
                        THEN (i * ImmediateStep) \div MinutesPerUnit
                        ELSE i * HourUnits
          IN \A post \in NewPosts :
                post.scheduled_for = bulk_upload.start_date + offset]_vars

\* ---- C36 ----------------------------------------------------------------
\* the handlers that have passed the status check of post p on the initial
\* dispatch: timer jobs on the pool threads, and the polling thread
PastStatusCheck(p) ==
    {t \in ThreadIds : /\ threads[t].kind = "publish" /\ threads[t].post = p
                       /\ threads[t].pc \in {"mark", "create", "post", "final"}}
    \cup {t \in {Poller} : /\ threads[t].post = p
                           /\ threads[t].pc \in {"mark", "call", "final"}}

\* the handlers waiting in the publish call of the initial dispatch of post
\* p to platform pl
PublishingTo(p, pl) ==
    {t \in ThreadIds : /\ threads[t].kind = "publish" /\ threads[t].pc = "post"
                       /\ queue[threads[t].qid].post_id = p
                       /\ queue[threads[t].qid].platform = pl}
    \cup {t \in {Poller} : /\ threads[t].pc = "call" /\ threads[t].post = p
                           /\ threads[t].i <= Len(posts[p].platforms)
                           /\ posts[p].platforms[threads[t].i] = pl}

\* C36: of the firings for one due post, two timer jobs or a timer job and
\* the polling loop, at most one passes the status check, and no platform
\* is published to by two of them.
C36_SingleDispatch ==
    \A p \in PostIds :
        /\ Cardinality(PastStatusCheck(p)) <= 1
        /\ \A pl \in Platforms : Cardinality(PublishingTo(p, pl)) <= 1

\* ---- C37 ----------------------------------------------------------------
\* the rows of post p for platform pl
RowsFor(p, pl) == {q \in RowsOf(p) : queue[q].platform = pl}

\* the publish calls that have returned for the rows of S: the failed ones
\* and, for a completed row, the one that succeeded
RECURSIVE CallsOf(_)
CallsOf(S) ==
    IF S = {} THEN 0
    ELSE LET q == CHOOSE r \in S : TRUE
         IN queue[q].failures
                + (IF queue[q].status = "completed" THEN 1 ELSE 0)
                + CallsOf(S \ {q})

\* a handler enters post_to_platform for row q in this step
CallStarts(q) ==
    \E t \in ThreadIds :
        /\ threads'[t].pc = "post" /\ threads'[t].qid = q
        /\ ~(threads[t].pc = "post" /\ threads[t].qid = q)

\* C37: for every post and platform, over all dispatch and retry firings,
\* at most max_attempts publish calls are made, the post is published to
\* the platform at most once, and no publish call is started for the pair
\* after one has succeeded.
C37_PublishAtMostOnce ==
    /\ [](\A p \in PostIds, pl \in Platforms :
            /\ CallsOf(RowsFor(p, pl)) <= MaxAttempts
            /\ Cardinality({q \in RowsFor(p, pl) :
                               queue[q].status = "completed"}) <= 1)
    /\ [][\A q \in 1..Len(queue') :
            CallStarts(q) =>
                \A r \in Rows :
                    (queue[r].post_id = queue'[q].post_id
                        /\ queue[r].platform = queue'[q].platform)
                    => queue[r].status # "completed"]_vars


\* ---- C38 ----------------------------------------------------------------
\* the clock of the model stops at MaxTime, which stands for every later
\* time as well: a job whose run_date lies beyond it fires there
FireAtHorizon(j, t) ==
    /\ now = MaxTime
    /\ j.run_date > now
    /\ Fire_AnyTime(j, t)

\* the application without internal errors, with a clock that reaches every
\* run_date
NextEventually ==
    \/ NextNoInternalError
    \/ \E j \in jobs, t \in ThreadIds : FireAtHorizon(j, t)

\* time passes, every pending job fires, every handler runs on and every
\* publish call returns
SpecEventually ==
    /\ Init
    /\ [][NextEventually]_vars
    /\ WF_vars(Tick)
    /\ WF_vars(\E j \in jobs, t \in ThreadIds : FireAtHorizon(j, t))
    /\ WF_vars(Progress(Results))
    /\ WF_vars(SlowReturn(Results))

\* post p is done: every task is completed or failed for good, the status is
\* a final one and no job of the post is pending or at work
Terminal(p) ==
    /\ Final(p)
    /\ \A q \in RowsOf(p) : Completed(q) \/ Exhausted(q)
    /\ posts[p].status \in {"posted", "partial", "failed"}
    /\ PendingPostJobs(p) = {}

SpecPollReturns ==
    /\ Init
    /\ [][NextPoll]_vars
    /\ WF_vars(PollProgress)
    /\ WF_vars(\E res \in PollResults : PollerHangs /\ PollCall(res))

\* the polling thread is at work on post p, past its first commit
PollerAt(p) ==
    /\ threads[Poller].post = p
    /\ threads[Poller].pc \in {"call", "final"}

\* the polling thread gives up post p in the except block of the loop
Raises(p) ==
    /\ PollerAt(p)
    /\ ~PollerAt(p)'
    /\ posts'[p].posting_results = posts[p].posting_results

PolledPostTerminates ==
    \A p \in PostIds :
        (posts[p].status = "posting")
            ~> (posts[p].status \in {"posted", "partial", "failed"} /\ ~PollerAt(p))

\* ---- C39 ----------------------------------------------------------------
\* the changes of a post's status that go forward
Forward(old, new) ==
    \/ new = old
    \/ old = "scheduled" /\ new \in {"posting", "failed"}
    \/ old = "posting" /\ new \in {"posted", "partial", "failed"}
    \/ old = "failed" /\ new \in {"partial", "posted"}
    \/ old = "partial" /\ new = "posted"

\* C39: the status of a post only moves forward: a post that has left
\* scheduled is never scheduled again, one that has left posting is never
\* posting again, after posting the only changes are failed to partial,
\* failed to posted and partial to posted, and posted never changes.
C39_StatusMovesForward ==
    [][\A p \in PostIds :
          (posts[p].exists /\ posts'[p].exists)
              => Forward(posts[p].status, posts'[p].status)]_vars

====
